---- MODULE Spec2Model ----
(***************************************************************************)
(* Model of the invoice pipeline's stage handlers                          *)
(*   functions/gcp/v1/src/functions/invoice_classifier/main.py             *)
(*   functions/gcp/v1/src/functions/data_extractor/main.py                 *)
(* and of the timing utility                                               *)
(*   functions/gcp/v1/src/shared/utils/timing.py                           *)
(*                                                                         *)
(* Spec      : one invocation of a stage handler, step by step.            *)
(* TimerSpec : function_timer used by an arbitrary caller (nested and      *)
(*             sequential scopes, caller-inserted keys, raising bodies).   *)
(***************************************************************************)
EXTENDS Integers, Sequences, FiniteSets, TLC

\* ------------------------------------------------------------------ bounds
\* largest number of derived artifacts in an inbound message
MaxFiles == 2
\* the clock stops advancing at this many ticks
MaxClock == 3
\* resolution of the modelled perf_counter: ticks per second
TicksPerSecond == 2000
\* TimerSpec: number of function_timer scopes entered in one behaviour
MaxScopes == 2
\* TimerSpec: nesting depth of function_timer scopes
MaxDepth == 2
\* RedeliverySpec: number of deliveries of the same message
MaxDeliveries == 2

\* ------------------------------------------------------- program constants
\* timing.py line 33 multiplies the elapsed seconds by 1000
MsPerSecond == 1000

None == "None"

VARIABLES
    clock,              \* time.perf_counter(), in ticks
    scopes,             \* every function_timer handle created so far
    stack,              \* indices into scopes of the scopes still open, innermost last
    inflight,           \* the exception unwinding through with-blocks, or None
    caught,             \* TimerSpec: the exception the outermost caller observed
    handler,            \* which stage handler is invoked
    pc,                 \* position of the invocation
    cloud_event,        \* the inbound message body
    langfuse_enabled,   \* config.langfuse_enabled / observer.is_enabled
    source_file,        \* local variables of the handler
    total_input_bytes,
    images_data,
    exception_to_raise,
    result,
    avg_score,
    all_valid,
    classification,
    archive_uri,
    route_error,        \* the exception caught inside _copy_to_failed_bucket, or None
    calls,              \* every collaborator call issued, in order
    outcome,            \* "running", "returned" or "raised"
    raised,             \* the exception the handler's caller received
    failure_log,        \* the record logged by logger.exception
    history             \* what the earlier deliveries of the message did

tvars == <<clock, scopes, stack, inflight, caught>>
hvars == <<handler, pc, cloud_event, langfuse_enabled, source_file,
           total_input_bytes, images_data, exception_to_raise, result,
           avg_score, all_valid, classification, archive_uri, route_error,
           calls, outcome, raised, failure_log, history>>
vars == <<clock, scopes, stack, inflight, caught, handler, pc, cloud_event,
          langfuse_enabled, source_file, total_input_bytes, images_data,
          exception_to_raise, result, avg_score, all_valid, classification,
          archive_uri, route_error, calls, outcome, raised, failure_log,
          history>>

\* =================================================================== timer
\* a Python dict: a function whose domain is the set of keys present
EmptyDict == [k \in {} |-> 0]

DictSet(d, k, v) == [x \in (DOMAIN d) \cup {k} |-> IF x = k THEN v ELSE d[x]]

\* int(x) of a quotient n/d: truncation toward zero
IntTrunc(n, d) ==
    IF n >= 0 THEN n \div d ELSE 0 - ((0 - n) \div d)

\* mutant: the operands of the subtraction are swapped
elapsed_ms_swapped(start, now) == IntTrunc((start - now) * MsPerSecond, TicksPerSecond)

\* int((time.perf_counter() - start) * 1000), the clock counted in ticks
elapsed_ms(start, now) == IntTrunc((now - start) * MsPerSecond, TicksPerSecond)

\* function_timer up to the yield: a fresh dict and the start time
function_timer_enter(now) ==
    [metrics |-> EmptyDict, start |-> now]

\* mutant: the write sits in an `except: pass` instead of a finally
function_timer_exit_swallow(h, now, exc) ==
    [metrics |-> DictSet(h.metrics, "latency_ms", elapsed_ms(h.start, now)),
     exc |-> None]

\* mutant: the finally clause puts the result into a new dict
function_timer_exit_fresh_dict(h, now, exc) ==
    [metrics |-> DictSet(EmptyDict, "latency_ms", elapsed_ms(h.start, now)),
     exc |-> exc]

\* the finally clause: the write of 'latency_ms'; a finally clause without
\* return or raise lets the exception that entered it continue
function_timer_exit(h, now, exc) ==
    [metrics |-> DictSet(h.metrics, "latency_ms", elapsed_ms(h.start, now)),
     exc |-> exc]

\* time.perf_counter() is monotonic: it never goes back
Tick ==
    /\ clock < MaxClock
    /\ clock' = clock + 1

Top == stack[Len(stack)]

Pop(s) == SubSeq(s, 1, Len(s) - 1)

\* a scope as the model tracks it: the handle, whether the with-block has
\* been left, the exception that left its body and the one that left the
\* scope, its rank among the exits and the scope whose body entered it
NewScope(now) ==
    [metrics |-> function_timer_enter(now).metrics,
     start |-> function_timer_enter(now).start,
     exited |-> FALSE,
     caller_wrote |-> FALSE,
     body_exc |-> None,
     out_exc |-> None,
     exit_order |-> 0,
     parent |-> 0]

ExitedCount == Cardinality({i \in 1..Len(scopes) : scopes[i].exited})

\* mutant: metrics is one module-level dict that every scope yields
CloseTop_shared_dict(exc) ==
    LET r == function_timer_exit(scopes[Top], clock, exc)
    IN [i \in DOMAIN scopes |->
          IF i = Top
             THEN [scopes[i] EXCEPT !.metrics = r.metrics,
                                    !.exited = TRUE,
                                    !.out_exc = r.exc,
                                    !.exit_order = ExitedCount + 1]
             ELSE [scopes[i] EXCEPT !.metrics = r.metrics]]

\* leaving the with-block of the innermost open scope, exc unwinding (or None)
CloseTop(exc) ==
    LET r == function_timer_exit(scopes[Top], clock, exc)
    IN [scopes EXCEPT ![Top] = [@ EXCEPT !.metrics = r.metrics,
                                         !.exited = TRUE,
                                         !.out_exc = r.exc,
                                         !.exit_order = ExitedCount + 1]]

\* ============================================================== TimerSpec
\* function_timer driven by an arbitrary caller
Exceptions == {"ValueError", "KeyError"}
Keys == {"latency_ms", "custom_metric"}
CustomValues == {42}

\* constants for the handler's variables while the timer is studied alone
NoResult == [success |-> FALSE, has_invoice |-> FALSE, provider |-> None,
             latency_ms |-> 0, confidence |-> 0, error |-> None]
NoClassification == [vendor_type |-> None, confidence |-> 0]
NoURI == [scheme |-> None, bucket |-> None, path |-> <<>>]
NoBody == [kind |-> None, source_file |-> NoURI, converted_files |-> <<>>,
           vendor_type |-> None, quality_score |-> 0]

NoLog == [logged |-> FALSE, error |-> None, source_file |-> NoURI,
          latency_ms |-> 0, total_input_bytes |-> 0]

HandlerIdle ==
    /\ handler = None
    /\ pc = "idle"
    /\ cloud_event = NoBody
    /\ langfuse_enabled = FALSE
    /\ source_file = NoURI
    /\ total_input_bytes = 0
    /\ images_data = <<>>
    /\ exception_to_raise = None
    /\ result = NoResult
    /\ avg_score = 0
    /\ all_valid = FALSE
    /\ classification = NoClassification
    /\ archive_uri = NoURI
    /\ route_error = None
    /\ calls = <<>>
    /\ outcome = "running"
    /\ raised = None
    /\ failure_log = NoLog
    /\ history = <<>>

TimerInit ==
    /\ clock = 0
    /\ scopes = <<>>
    /\ stack = <<>>
    /\ inflight = None
    /\ caught = None
    /\ HandlerIdle

\* `with function_timer() as timing:` is entered
TEnter ==
    /\ inflight = None
    /\ Len(scopes) < MaxScopes
    /\ Len(stack) < MaxDepth
    /\ scopes' = Append(scopes, [NewScope(clock) EXCEPT
                                    !.parent = IF stack = <<>> THEN 0 ELSE Top])
    /\ stack' = Append(stack, Len(scopes) + 1)
    /\ UNCHANGED <<clock, inflight, caught>>
    /\ UNCHANGED hvars

TTick ==
    /\ Tick
    /\ UNCHANGED <<scopes, stack, inflight, caught>>
    /\ UNCHANGED hvars

\* the body writes a key of the handle (timing["custom_metric"] = 42)
TBodyInsert ==
    /\ inflight = None
    /\ stack # <<>>
    /\ \E k \in Keys, v \in CustomValues :
         scopes' = [scopes EXCEPT ![Top].metrics = DictSet(@, k, v),
                                  ![Top].caller_wrote = @ \/ (k = "latency_ms")]
    /\ UNCHANGED <<clock, stack, inflight, caught>>
    /\ UNCHANGED hvars

\* the body of the innermost scope raises
TBodyRaise ==
    /\ inflight = None
    /\ stack # <<>>
    /\ \E e \in Exceptions :
         /\ inflight' = e
         /\ scopes' = [scopes EXCEPT ![Top].body_exc = e]
    /\ UNCHANGED <<clock, stack, caught>>
    /\ UNCHANGED hvars

\* the with-block of the innermost scope is left, normally or by the
\* exception in flight; the exception that leaves the scope reaches the
\* enclosing body, or the caller when no scope encloses it
TExit ==
    /\ stack # <<>>
    /\ LET closed == CloseTop(inflight)
           out == closed[Top].out_exc
           rest == Pop(stack)
       IN /\ stack' = rest
          /\ IF out # None /\ rest # <<>>
                THEN /\ scopes' = [closed EXCEPT ![rest[Len(rest)]].body_exc = out]
                     /\ inflight' = out
                     /\ caught' = caught
                ELSE /\ scopes' = closed
                     /\ inflight' = None
                     /\ caught' = IF out # None THEN out ELSE caught
    /\ UNCHANGED clock
    /\ UNCHANGED hvars

\* the body of an enclosing scope handles the exception an inner scope let out
TBodyCatch ==
    /\ inflight # None
    /\ stack # <<>>
    /\ inflight' = None
    /\ scopes' = [scopes EXCEPT ![Top].body_exc = None]
    /\ UNCHANGED <<clock, stack, caught>>
    /\ UNCHANGED hvars

TimerNext ==
    \/ TEnter
    \/ TTick
    \/ TBodyInsert
    \/ TBodyRaise
    \/ TExit
    \/ TBodyCatch

TimerSpec == TimerInit /\ [][TimerNext]_vars

\* ================================================================ handlers
\* ---------------------------------------------------------------- values
\* a storage URI: gs://<bucket>/<path segments>
GsURI(b, p) == [scheme |-> "gs", bucket |-> b, path |-> p]

\* source_file = "unknown" (classifier line 49, extractor line 83)
UnknownSource == [scheme |-> None, bucket |-> "unknown", path |-> <<>>]

\* a string that is no gs:// URI
BadURI == [scheme |-> "file", bucket |-> "tmp", path |-> <<"x.tif">>]

SourceURIs == {GsURI("in", <<"a.tif">>), GsURI("in", <<"2024", "b.tif">>), BadURI}

PngURIs == {GsURI("proc", <<"a.png">>), GsURI("proc", <<"b.png">>), BadURI}

\* len(png_data) of the object stored under a URI
BlobSize(u) == IF u = GsURI("proc", <<"a.png">>) THEN 3 ELSE 5

\* config.archive_bucket, config.failed_bucket, the two topics
archive_bucket == "archive"
failed_bucket == "failed"
classified_topic == "invoice-classified"
extracted_topic == "invoice-extracted"

SeqsUpTo(S, n) == UNION {[1..k -> S] : k \in 0..n}

\* the decoded bodies a delivery can carry: bytes that do not decode, JSON of
\* the wrong shape, or a message that validates
Bodies(h) ==
    {[NoBody EXCEPT !.kind = k] : k \in {"undecodable", "bad_shape"}}
    \cup
    {[kind |-> "ok", source_file |-> s, converted_files |-> f,
      vendor_type |-> IF h = "extractor" THEN "ubereats" ELSE None,
      quality_score |-> IF h = "extractor" THEN 80 ELSE 0] :
        s \in SourceURIs, f \in SeqsUpTo(PngURIs, MaxFiles)}

\* what extract_invoice can return
ExtractionResults ==
    {[success |-> TRUE, has_invoice |-> i, provider |-> p,
      latency_ms |-> 850, confidence |-> 95, error |-> None] :
        i \in BOOLEAN, p \in {"gemini", "openrouter"}}
    \cup
    {[success |-> FALSE, has_invoice |-> FALSE, provider |-> "openrouter",
      latency_ms |-> 1200, confidence |-> 0, error |-> e] :
        e \in {None, "", "All providers failed"}}

\* what validate_all_images can return: (all_valid, avg_score)
QualityOutcomes == {<<TRUE, 90>>, <<FALSE, 35>>}

\* splits a storage URI into (bucket, path); raises on anything else
parse_gcs_uri(u) ==
    IF u.scheme = "gs"
       THEN [ok |-> TRUE, bucket |-> u.bucket, path |-> u.path]
       ELSE [ok |-> FALSE, bucket |-> None, path |-> <<>>]

\* vendor detection from the file names, deterministic
classify_vendor(src, files) ==
    [vendor_type |-> IF src.path # <<>> /\ src.path[Len(src.path)] = "a.tif"
                        THEN "ubereats" ELSE "other",
     confidence |-> 100]

\* x or d
PyOr(x, d) == IF x \in {None, ""} THEN d ELSE x

\* --------------------------------------------------------- collaborators
NoLoc == [bucket |-> None, path |-> <<>>, suffix |-> ""]
NoMsg == [kind |-> None, source_file |-> NoURI, converted_files |-> <<>>,
          vendor_type |-> None, quality_score |-> 0, archived_to |-> NoURI,
          extraction_model |-> None, extraction_latency_ms |-> 0,
          confidence_score |-> 0, extracted_data |-> None]

Call(op, uri, dst, msg, err, ok) ==
    [op |-> op, uri |-> uri, dst |-> dst, msg |-> msg, err |-> err, ok |-> ok]

ReadCall(u, ok) == Call("read", u, NoLoc, NoMsg, None, ok)
CopyCall(u, b, p, ok) ==
    Call("copy", u, [bucket |-> b, path |-> p, suffix |-> ""], NoMsg, None, ok)
WriteCall(u, b, p, sfx, err, ok) ==
    Call("write", u, [bucket |-> b, path |-> p, suffix |-> sfx], NoMsg, err, ok)
PublishCall(m, ok) == Call("publish", NoURI, NoLoc, m, None, ok)
FlushCall(ok) == Call("flush", NoURI, NoLoc, NoMsg, None, ok)
ScoreCall(ok) == Call("score_trace", NoURI, NoLoc, NoMsg, None, ok)
\* the invocation of _copy_to_failed_bucket itself
RouteCall(u, err) == Call("_copy_to_failed_bucket", u, NoLoc, NoMsg, err, TRUE)

Count(op) == Cardinality({i \in 1..Len(calls) : calls[i].op = op})
CountOk(op) == Cardinality({i \in 1..Len(calls) : calls[i].op = op /\ calls[i].ok})

RECURSIVE SumSizes(_)
SumSizes(imgs) ==
    IF imgs = <<>> THEN 0 ELSE BlobSize(Head(imgs)) + SumSizes(Tail(imgs))

\* ------------------------------------------------------------ the handlers
Handlers == {"classifier", "extractor"}

\* what an invocation never changes: the delivery, the configuration and
\* the record of the earlier deliveries
input == <<handler, cloud_event, langfuse_enabled, history>>

Init ==
    /\ clock = 0
    /\ scopes = <<>>
    /\ stack = <<>>
    /\ inflight = None
    /\ caught = None
    /\ handler \in Handlers
    /\ cloud_event \in Bodies(handler)
    /\ langfuse_enabled \in IF handler = "extractor" THEN BOOLEAN ELSE {FALSE}
    /\ pc = "start"
    /\ source_file = UnknownSource
    /\ total_input_bytes = 0
    /\ images_data = <<>>
    /\ exception_to_raise = None
    /\ result = NoResult
    /\ avg_score = 0
    /\ all_valid = FALSE
    /\ classification = NoClassification
    /\ archive_uri = NoURI
    /\ route_error = None
    /\ calls = <<>>
    /\ outcome = "running"
    /\ raised = None
    /\ failure_log = NoLog
    /\ history = <<>>

timing == scopes[1].metrics

\* mutant: the extractor sends a failed publish to the failure bucket
OnFault_route_publish(h, step) ==
    IF h = "extractor"
       THEN (IF step = "publish" THEN "route" ELSE "except")
       ELSE "exit_timer"

\* mutant: the extractor sends a failed download to the failure bucket
OnFault_route_download(h, step) ==
    IF h = "extractor"
       THEN (IF step = "download" THEN "route" ELSE "except")
       ELSE "exit_timer"

\* where control goes when `step` raises inside the try block: the except
\* clause (classifier line 144, extractor line 210)
OnFault(h, step) ==
    IF h = "extractor" THEN "except" ELSE "exit_timer"

\* `except Exception as e: exception_to_raise = e`
Fault(step, e) ==
    /\ exception_to_raise' = e
    /\ pc' = OnFault(handler, step)

\* mutant: the return of extractor line 150 is missing
NextStep_no_return(h, step) ==
    IF h = "classifier"
       THEN CASE step = "download" -> "validate"
              [] step = "validate" -> "classify"
              [] step = "classify" -> "archive"
              [] step = "archive" -> "publish"
              [] step = "publish" -> "exit_timer"
       ELSE CASE step = "download" -> "extract"
              [] step = "extract_failed" -> "route"
              [] step = "route" -> "flush_failed"
              [] step = "flush_failed" -> "score"
              [] step = "extract_ok" -> "score"
              [] step = "score" -> "publish"
              [] step = "publish" -> "flush_ok"
              [] step = "flush_ok" -> "exit_timer"

\* mutant: the flush after the publish (extractor line 208) is missing
NextStep_no_flush_after_publish(h, step) ==
    IF h = "classifier"
       THEN CASE step = "download" -> "validate"
              [] step = "validate" -> "classify"
              [] step = "classify" -> "archive"
              [] step = "archive" -> "publish"
              [] step = "publish" -> "exit_timer"
       ELSE CASE step = "download" -> "extract"
              [] step = "extract_failed" -> "route"
              [] step = "route" -> "flush_failed"
              [] step = "flush_failed" -> "exit_timer_return"
              [] step = "extract_ok" -> "score"
              [] step = "score" -> "publish"
              [] step = "publish" -> "exit_timer"
              [] step = "flush_ok" -> "exit_timer"

\* mutant: the classifier publishes before it archives
NextStep_publish_first(h, step) ==
    IF h = "classifier"
       THEN CASE step = "download" -> "validate"
              [] step = "validate" -> "classify"
              [] step = "classify" -> "publish"
              [] step = "publish" -> "archive"
              [] step = "archive" -> "exit_timer"
       ELSE CASE step = "download" -> "extract"
              [] step = "extract_failed" -> "route"
              [] step = "route" -> "flush_failed"
              [] step = "flush_failed" -> "exit_timer_return"
              [] step = "extract_ok" -> "score"
              [] step = "score" -> "publish"
              [] step = "publish" -> "flush_ok"
              [] step = "flush_ok" -> "exit_timer"

\* the order of the steps of the try block once the images are downloaded
NextStep(h, step) ==
    IF h = "classifier"
       THEN CASE step = "download" -> "validate"
              [] step = "validate" -> "classify"
              [] step = "classify" -> "archive"
              [] step = "archive" -> "publish"
              [] step = "publish" -> "exit_timer"
       ELSE CASE step = "download" -> "extract"
              [] step = "extract_failed" -> "route"
              [] step = "route" -> "flush_failed"
              [] step = "flush_failed" -> "exit_timer_return"
              [] step = "extract_ok" -> "score"
              [] step = "score" -> "publish"
              [] step = "publish" -> "flush_ok"
              [] step = "flush_ok" -> "exit_timer"

\* `with function_timer() as timing:` (classifier line 55, extractor line 90)
EnterTimer ==
    /\ pc = "start"
    /\ scopes' = <<NewScope(clock)>>
    /\ stack' = <<1>>
    /\ pc' = "decode"
    /\ UNCHANGED <<clock, inflight, caught, input, source_file, total_input_bytes,
                   images_data, exception_to_raise, result, avg_score, all_valid,
                   classification, archive_uri, route_error, calls, outcome,
                   raised, failure_log>>

\* the clock runs while the handler works
HTick ==
    /\ pc \notin {"done"}
    /\ Tick
    /\ UNCHANGED <<scopes, stack, inflight, caught>>
    /\ UNCHANGED hvars

\* mutant: a body of the wrong shape is let through
DecodeFault_lenient(body) ==
    IF body.kind = "undecodable" THEN "Exc_decode" ELSE None

\* what base64.b64decode, json.loads and model_validate make of the body:
\* the exception they raise, or None
DecodeFault(body) ==
    CASE body.kind = "undecodable" -> "Exc_decode"
      [] body.kind = "bad_shape" -> "Exc_validation"
      [] OTHER -> None

\* mutant: images_data is a module-level list that is never emptied
fresh_images_kept == images_data

\* images_data = [] (classifier line 72, extractor line 112)
fresh_images == <<>>

\* decode, validate, source_file = message.source_file, and the empty list
\* and zero byte count the download loop starts from
\* (classifier lines 57-73, extractor lines 92-113)
Decode ==
    /\ pc = "decode"
    /\ IF DecodeFault(cloud_event) # None
          THEN /\ Fault("decode", DecodeFault(cloud_event))
               /\ UNCHANGED <<source_file, images_data, total_input_bytes>>
          ELSE /\ source_file' = cloud_event.source_file
               /\ images_data' = fresh_images
               /\ total_input_bytes' = 0
               /\ pc' = "download"
               /\ UNCHANGED exception_to_raise
    /\ UNCHANGED <<tvars, input, result,
                   avg_score, all_valid, classification, archive_uri,
                   route_error, calls, outcome, raised, failure_log>>

\* one turn of `for png_uri in message.converted_files`
\* (classifier lines 74-78, extractor lines 114-118)
Download ==
    /\ pc = "download"
    /\ Len(images_data) < Len(cloud_event.converted_files)
    /\ LET png_uri == cloud_event.converted_files[Len(images_data) + 1]
       IN IF ~parse_gcs_uri(png_uri).ok
             THEN /\ Fault("download", "Exc_parse_uri")
                  /\ UNCHANGED <<calls, images_data, total_input_bytes>>
             ELSE \E ok \in BOOLEAN :
                    /\ calls' = Append(calls, ReadCall(png_uri, ok))
                    /\ IF ok
                          THEN /\ images_data' = Append(images_data, png_uri)
                               /\ total_input_bytes' = total_input_bytes + BlobSize(png_uri)
                               /\ UNCHANGED <<pc, exception_to_raise>>
                          ELSE /\ Fault("download", "Exc_read")
                               /\ UNCHANGED <<images_data, total_input_bytes>>
    /\ UNCHANGED <<tvars, input, source_file, result, avg_score, all_valid,
                   classification, archive_uri, route_error, outcome, raised,
                   failure_log>>

\* mutant: the loop is left after the first turn
Downloaded_first_only ==
    /\ pc = "download"
    /\ Len(images_data) >= (IF cloud_event.converted_files = <<>> THEN 0 ELSE 1)

\* the download loop has run through message.converted_files
Downloaded ==
    /\ pc = "download"
    /\ Len(images_data) = Len(cloud_event.converted_files)

\* ------------------------------------------------------------- classifier
\* mutant: an invalid result ends the work without publishing
AfterValidation_gated(h, valid) ==
    IF valid THEN NextStep(h, "validate") ELSE "exit_timer"

\* `if not all_valid:` only logs a warning (lines 91-99): the next statement
\* is the classification either way
AfterValidation(h, valid) == NextStep(h, "validate")

\* validate_all_images; an invalid result is only logged (lines 89-99)
ValidateImages ==
    /\ handler = "classifier"
    /\ Downloaded
    /\ \/ \E q \in QualityOutcomes :
            /\ all_valid' = q[1]
            /\ avg_score' = q[2]
            /\ pc' = AfterValidation(handler, q[1])
            /\ UNCHANGED exception_to_raise
       \/ /\ Fault("validate", "Exc_validate_images")
          /\ UNCHANGED <<all_valid, avg_score>>
    /\ UNCHANGED <<tvars, input, source_file, total_input_bytes, images_data,
                   result, classification, archive_uri, route_error, calls,
                   outcome, raised, failure_log>>

\* classify_vendor (line 101)
Classify ==
    /\ handler = "classifier"
    /\ pc = "classify"
    /\ \/ /\ classification' = classify_vendor(source_file, cloud_event.converted_files)
          /\ pc' = NextStep(handler, "classify")
          /\ UNCHANGED exception_to_raise
       \/ /\ Fault("classify", "Exc_classify")
          /\ UNCHANGED classification
    /\ UNCHANGED <<tvars, input, source_file, total_input_bytes, images_data,
                   result, avg_score, all_valid, archive_uri, route_error,
                   calls, outcome, raised, failure_log>>

\* mutant: the archive keeps the file name only, like the failure bucket
archive_path_flat(source_path) == <<source_path[Len(source_path)]>>

\* archive_path = source_path (line 115)
archive_path(source_path) == source_path

\* the archive copy under the same path (lines 114-121)
Archive ==
    /\ handler = "classifier"
    /\ pc = "archive"
    /\ LET src == parse_gcs_uri(source_file)
       IN IF ~src.ok
             THEN /\ Fault("archive", "Exc_parse_uri")
                  /\ UNCHANGED <<calls, archive_uri>>
             ELSE \E ok \in BOOLEAN :
                    /\ calls' = Append(calls,
                                       CopyCall(source_file, archive_bucket,
                                                archive_path(src.path), ok))
                    /\ IF ok
                          THEN /\ archive_uri' = GsURI(archive_bucket, archive_path(src.path))
                               /\ pc' = NextStep(handler, "archive")
                               /\ UNCHANGED exception_to_raise
                          ELSE /\ Fault("archive", "Exc_copy")
                               /\ UNCHANGED archive_uri
    /\ UNCHANGED <<tvars, input, source_file, total_input_bytes, images_data,
                   result, avg_score, all_valid, classification, route_error,
                   outcome, raised, failure_log>>

\* InvoiceClassifiedMessage(...) (lines 131-137)
classified_message ==
    [NoMsg EXCEPT !.kind = "Classified",
                  !.source_file = source_file,
                  !.converted_files = cloud_event.converted_files,
                  !.vendor_type = classification.vendor_type,
                  !.quality_score = avg_score,
                  !.archived_to = archive_uri]

\* mutant: the provider string is passed through
extraction_model_raw(provider) == provider

\* ---------------------------------------------------------------- publish
\* "gemini-2.5-flash" if result.provider == "gemini" else "openrouter"
extraction_model(provider) ==
    IF provider = "gemini" THEN "gemini-2.5-flash" ELSE "openrouter"

\* InvoiceExtractedMessage(...) (lines 189-201)
extracted_message ==
    [NoMsg EXCEPT !.kind = "Extracted",
                  !.source_file = source_file,
                  !.vendor_type = cloud_event.vendor_type,
                  !.extraction_model = extraction_model(result.provider),
                  !.extraction_latency_ms = result.latency_ms,
                  !.confidence_score = result.confidence,
                  !.extracted_data = IF result.has_invoice THEN "invoice" ELSE "{}"]

\* build the outgoing message and messaging.publish it
\* (classifier lines 131-142, extractor lines 189-206)
Publish ==
    /\ pc = "publish"
    /\ \/ /\ Fault("publish", "Exc_message")
          /\ UNCHANGED calls
       \/ \E ok \in BOOLEAN :
            /\ calls' = Append(calls,
                   PublishCall(IF handler = "classifier" THEN classified_message
                                                         ELSE extracted_message, ok))
            /\ IF ok
                  THEN /\ pc' = NextStep(handler, "publish")
                       /\ UNCHANGED exception_to_raise
                  ELSE Fault("publish", "Exc_publish")
    /\ UNCHANGED <<tvars, input, source_file, total_input_bytes, images_data,
                   result, avg_score, all_valid, classification, archive_uri,
                   route_error, outcome, raised, failure_log>>

\* -------------------------------------------------------------- extractor
\* extract_invoice and the branch on result.success (lines 129-137)
Extract ==
    /\ handler = "extractor"
    /\ Downloaded
    /\ \/ \E r \in ExtractionResults :
            /\ result' = r
            /\ pc' = NextStep(handler, IF r.success THEN "extract_ok" ELSE "extract_failed")
            /\ UNCHANGED exception_to_raise
       \/ /\ Fault("extract", "Exc_extract")
          /\ UNCHANGED result
    /\ UNCHANGED <<tvars, input, source_file, total_input_bytes, images_data,
                   avg_score, all_valid, classification, archive_uri,
                   route_error, calls, outcome, raised, failure_log>>

\* mutant: the error record is written even when the copy failed
copy_to_failed_bucket_record_anyway(src_file, error_message, copy_ok, write_ok) ==
    LET src == parse_gcs_uri(src_file)
        filename == <<src.path[Len(src.path)]>>
        copy == CopyCall(src_file, failed_bucket, filename, copy_ok)
        write == WriteCall(src_file, failed_bucket, filename, ".error.json",
                           error_message, write_ok)
    IN  IF ~src.ok
           THEN [calls |-> <<>>, caught |-> "Exc_parse_uri", exc |-> None]
        ELSE IF ~copy_ok
           THEN [calls |-> <<copy, write>>, caught |-> "Exc_copy", exc |-> None]
        ELSE IF ~write_ok
           THEN [calls |-> <<copy, write>>, caught |-> "Exc_write", exc |-> None]
        ELSE [calls |-> <<copy, write>>, caught |-> None, exc |-> None]

\* mutant: _copy_to_failed_bucket without its try/except
copy_to_failed_bucket_unguarded(src_file, error_message, copy_ok, write_ok) ==
    LET src == parse_gcs_uri(src_file)
        filename == <<src.path[Len(src.path)]>>
        copy == CopyCall(src_file, failed_bucket, filename, copy_ok)
        write == WriteCall(src_file, failed_bucket, filename, ".error.json",
                           error_message, write_ok)
    IN  IF ~src.ok
           THEN [calls |-> <<>>, caught |-> "Exc_parse_uri", exc |-> "Exc_parse_uri"]
        ELSE IF ~copy_ok
           THEN [calls |-> <<copy>>, caught |-> "Exc_copy", exc |-> "Exc_copy"]
        ELSE IF ~write_ok
           THEN [calls |-> <<copy, write>>, caught |-> "Exc_write", exc |-> "Exc_write"]
        ELSE [calls |-> <<copy, write>>, caught |-> None, exc |-> None]

\* _copy_to_failed_bucket (lines 241-297): the calls it issues, the exception
\* its except clause catches and the exception it lets out. copy_ok and
\* write_ok say whether storage.copy and storage.write succeed.
copy_to_failed_bucket(src_file, error_message, copy_ok, write_ok) ==
    LET src == parse_gcs_uri(src_file)
        filename == <<src.path[Len(src.path)]>>
        copy == CopyCall(src_file, failed_bucket, filename, copy_ok)
        write == WriteCall(src_file, failed_bucket, filename, ".error.json",
                           error_message, write_ok)
    IN  IF ~src.ok
           THEN [calls |-> <<>>, caught |-> "Exc_parse_uri", exc |-> None]
        ELSE IF ~copy_ok
           THEN [calls |-> <<copy>>, caught |-> "Exc_copy", exc |-> None]
        ELSE IF ~write_ok
           THEN [calls |-> <<copy, write>>, caught |-> "Exc_write", exc |-> None]
        ELSE [calls |-> <<copy, write>>, caught |-> None, exc |-> None]

\* the call of _copy_to_failed_bucket on the negative result (line 148)
Route ==
    /\ handler = "extractor"
    /\ pc = "route"
    /\ \E copy_ok \in BOOLEAN, write_ok \in BOOLEAN :
         LET error_message == PyOr(result.error, "Unknown error")
             r == copy_to_failed_bucket(source_file, error_message, copy_ok, write_ok)
         IN /\ calls' = Append(calls, RouteCall(source_file, error_message)) \o r.calls
            /\ route_error' = r.caught
            /\ IF r.exc # None
                  THEN Fault("route", r.exc)
                  ELSE /\ pc' = NextStep(handler, "route")
                       /\ UNCHANGED exception_to_raise
    /\ UNCHANGED <<tvars, input, source_file, total_input_bytes, images_data,
                   result, avg_score, all_valid, classification, archive_uri,
                   outcome, raised, failure_log>>

\* observer.flush() inside the try block: after the routing (line 149, then
\* the return of line 150) and after the publish (line 208)
Flush ==
    /\ handler = "extractor"
    /\ pc \in {"flush_failed", "flush_ok"}
    /\ \E ok \in BOOLEAN :
         /\ calls' = Append(calls, FlushCall(ok))
         /\ IF ok
               THEN /\ pc' = NextStep(handler, pc)
                    /\ UNCHANGED exception_to_raise
               ELSE Fault("flush", "Exc_flush")
    /\ UNCHANGED <<tvars, input, source_file, total_input_bytes, images_data,
                   result, avg_score, all_valid, classification, archive_uri,
                   route_error, outcome, raised, failure_log>>

\* mutant: the annotation is sent whether or not the observer is enabled
should_score_any_observer(res, enabled) == res.has_invoice

\* `if result.invoice and observer.is_enabled:` (line 167)
should_score(res, enabled) == res.has_invoice /\ enabled

\* the scored annotation, when there is an invoice and the observer is
\* enabled (lines 167-187)
Score ==
    /\ handler = "extractor"
    /\ pc = "score"
    /\ IF should_score(result, langfuse_enabled)
          THEN \E ok \in BOOLEAN :
                 /\ calls' = Append(calls, ScoreCall(ok))
                 /\ IF ok
                       THEN /\ pc' = NextStep(handler, "score")
                            /\ UNCHANGED exception_to_raise
                       ELSE Fault("score", "Exc_score_trace")
          ELSE /\ pc' = NextStep(handler, "score")
               /\ UNCHANGED <<calls, exception_to_raise>>
    /\ UNCHANGED <<tvars, input, source_file, total_input_bytes, images_data,
                   result, avg_score, all_valid, classification, archive_uri,
                   route_error, outcome, raised, failure_log>>

\* the except clause of the extractor: observer.flush() (lines 210-212);
\* nothing guards the call, so an exception it raises leaves the clause and
\* the with-block
Except ==
    /\ handler = "extractor"
    /\ pc = "except"
    /\ \E ok \in BOOLEAN :
         /\ calls' = Append(calls, FlushCall(ok))
         /\ IF ok
               THEN /\ pc' = "exit_timer"
                    /\ UNCHANGED inflight
               ELSE /\ pc' = "unwind"
                    /\ inflight' = "Exc_flush_in_except"
    /\ UNCHANGED <<clock, scopes, stack, caught, input, source_file,
                   total_input_bytes, images_data, exception_to_raise, result,
                   avg_score, all_valid, classification, archive_uri,
                   route_error, outcome, raised, failure_log>>

\* the with-block is left: normally, by the return of line 150, or by an
\* exception that left the except clause
ExitTimer ==
    /\ pc \in {"exit_timer", "exit_timer_return", "unwind"}
    /\ LET closed == CloseTop(inflight)
           out == closed[1].out_exc
       IN /\ scopes' = closed
          /\ stack' = <<>>
          /\ inflight' = None
          /\ IF out # None
                THEN /\ outcome' = "raised"
                     /\ raised' = out
                     /\ pc' = "done"
                ELSE IF pc = "exit_timer_return"
                THEN /\ outcome' = "returned"
                     /\ pc' = "done"
                     /\ UNCHANGED raised
                ELSE /\ pc' = "after"
                     /\ UNCHANGED <<outcome, raised>>
    /\ UNCHANGED <<clock, caught, input, source_file, total_input_bytes,
                   images_data, exception_to_raise, result, avg_score,
                   all_valid, classification, archive_uri, route_error, calls,
                   failure_log>>

\* after the with-block: log and re-raise, or log the completion
\* (classifier lines 147-171, extractor lines 214-238);
\* timing["latency_ms"] raises KeyError when the key is missing
After ==
    /\ pc = "after"
    /\ pc' = "done"
    /\ IF "latency_ms" \notin DOMAIN timing
          THEN /\ outcome' = "raised"
               /\ raised' = "KeyError"
               /\ UNCHANGED failure_log
       ELSE IF exception_to_raise # None
          THEN /\ failure_log' = [logged |-> TRUE,
                                  error |-> exception_to_raise,
                                  source_file |-> source_file,
                                  latency_ms |-> timing["latency_ms"],
                                  total_input_bytes |-> total_input_bytes]
               /\ outcome' = "raised"
               /\ raised' = exception_to_raise
          ELSE /\ outcome' = "returned"
               /\ UNCHANGED <<raised, failure_log>>
    /\ UNCHANGED <<tvars, input, source_file, total_input_bytes, images_data,
                   exception_to_raise, result, avg_score, all_valid,
                   classification, archive_uri, route_error, calls>>

Next ==
    \/ EnterTimer
    \/ HTick
    \/ Decode
    \/ Download
    \/ ValidateImages
    \/ Classify
    \/ Archive
    \/ Publish
    \/ Extract
    \/ Route
    \/ Flush
    \/ Score
    \/ Except
    \/ ExitTimer
    \/ After

Spec == Init /\ [][Next]_vars

\* ========================================================= RedeliverySpec
\* the host delivers the same valid Converted message again after an
\* invocation of the classification handler has ended. The handler starts
\* from its prologue (lines 45-53); images_data is not bound again before
\* line 72.
Redeliver ==
    /\ pc = "done"
    /\ Len(history) + 1 < MaxDeliveries
    /\ history' = Append(history, [calls |-> calls, outcome |-> outcome])
    /\ pc' = "start"
    /\ scopes' = <<>>
    /\ stack' = <<>>
    /\ source_file' = UnknownSource
    /\ total_input_bytes' = 0
    /\ exception_to_raise' = None
    /\ classification' = NoClassification
    /\ avg_score' = 0
    /\ all_valid' = FALSE
    /\ archive_uri' = NoURI
    /\ calls' = <<>>
    /\ outcome' = "running"
    /\ raised' = None
    /\ failure_log' = NoLog
    /\ UNCHANGED <<clock, inflight, caught, handler, cloud_event,
                   langfuse_enabled, images_data, result, route_error>>

RedeliveryInit ==
    /\ Init
    /\ handler = "classifier"
    /\ cloud_event.kind = "ok"

RedeliveryNext ==
    \/ EnterTimer
    \/ Decode
    \/ Download
    \/ ValidateImages
    \/ Classify
    \/ Archive
    \/ Publish
    \/ ExitTimer
    \/ After
    \/ Redeliver

RedeliverySpec == RedeliveryInit /\ [][RedeliveryNext]_vars

\* ================================================================= claims
Route_op == "_copy_to_failed_bucket"

InvalidBody == cloud_event.kind \in {"undecodable", "bad_shape"}

Done == pc = "done"

\* C1: in both handlers, when the inbound body does not decode or does not
\* validate, no storage read, no storage copy or write, no failure-bucket
\* routing and no publish is ever issued in the invocation, and the
\* invocation ends in a fault.
C1_InvalidBodyNoSideEffect ==
    (handler \in Handlers /\ InvalidBody) =>
        /\ Count("read") = 0
        /\ Count("copy") = 0
        /\ Count("write") = 0
        /\ Count(Route_op) = 0
        /\ Count("publish") = 0
        /\ (Done => outcome = "raised")

C1_Witness ==
    /\ Done
    /\ handler = "extractor"
    /\ cloud_event.kind = "bad_shape"
    /\ outcome = "raised"
    /\ raised = "Exc_validation"
    /\ failure_log.logged

NegativeResult ==
    /\ handler = "extractor"
    /\ result # NoResult
    /\ ~result.success

\* C2: in the extraction handler, once extract_invoice has returned a
\* negative result, _copy_to_failed_bucket is invoked exactly once (it has
\* been invoked once in every state after the branch) and publish is never
\* called.
C2_NegativeResultRoutesOnce ==
    NegativeResult =>
        /\ Count("publish") = 0
        /\ Count(Route_op) = (IF pc = "route" THEN 0 ELSE 1)

C2_Witness ==
    /\ NegativeResult
    /\ Done
    /\ outcome = "returned"
    /\ Count(Route_op) = 1
    /\ Count("publish") = 0

PositiveResult ==
    /\ handler = "extractor"
    /\ result.success

Published == {calls[i].msg : i \in {j \in 1..Len(calls) : calls[j].op = "publish"}}

\* C3 as stated: for a successful extraction result publish is called exactly
\* once, with source_file the inbound one and extraction_model,
\* extraction_latency_ms and confidence_score equal to the result's provider,
\* latency_ms and confidence.
C3_AsStated ==
    (PositiveResult /\ Done) =>
        /\ Count("publish") = 1
        /\ \A m \in Published :
             /\ m.source_file = cloud_event.source_file
             /\ m.extraction_model = result.provider
             /\ m.extraction_latency_ms = result.latency_ms
             /\ m.confidence_score = result.confidence

\* C3 amended: for a successful extraction result publish is called at most
\* once, and exactly once unless the scored annotation or the construction
\* of the Extracted message faults first; the message carries the inbound
\* source_file, the result's latency_ms and confidence, and as
\* extraction_model "gemini-2.5-flash" for the provider "gemini" and
\* "openrouter" for any other provider.
C3_PublishOnSuccess ==
    PositiveResult =>
        /\ Count("publish") <= 1
        /\ (Done /\ exception_to_raise \notin {"Exc_score_trace", "Exc_message"})
              => Count("publish") = 1
        /\ (exception_to_raise \in {"Exc_score_trace", "Exc_message"})
              => Count("publish") = 0
        /\ \A m \in Published :
             /\ m.kind = "Extracted"
             /\ m.source_file = cloud_event.source_file
             /\ m.extraction_latency_ms = result.latency_ms
             /\ m.confidence_score = result.confidence
             /\ (result.provider = "gemini" => m.extraction_model = "gemini-2.5-flash")
             /\ (result.provider # "gemini" => m.extraction_model = "openrouter")

C3_Witness ==
    /\ PositiveResult
    /\ Done
    /\ outcome = "returned"
    /\ result.provider = "gemini"
    /\ CountOk("publish") = 1

RoutingFaults == {"Exc_parse_uri", "Exc_copy", "Exc_write"}

\* C4: a fault inside _copy_to_failed_bucket (URI parsing, the copy, the
\* write of the error record) never becomes the handler's exception: the
\* handler goes on to the flush of the negative-result path, and returns
\* unless that flush itself raises.
C4_RoutingFaultSwallowed ==
    (handler = "extractor" /\ route_error # None) =>
        /\ route_error \in RoutingFaults
        /\ exception_to_raise \notin RoutingFaults
        /\ raised \notin RoutingFaults
        /\ inflight \notin RoutingFaults
        /\ (pc = "flush_failed" \/ Count("flush") >= 1)
        /\ (Done /\ \A i \in 1..Len(calls) : calls[i].ok \/ calls[i].op # "flush")
              => outcome = "returned"

C4_Witness ==
    /\ handler = "extractor"
    /\ Done
    /\ route_error = "Exc_copy"
    /\ outcome = "returned"
    /\ Count("flush") = 1

FlushFaults == {"Exc_flush", "Exc_flush_in_except"}

\* C5 as stated: an exception raised by observer.flush() never reaches the
\* caller of the extraction handler.
C5_FlushFaultNeverPropagates ==
    handler = "extractor" => raised \notin FlushFaults

\* C6 as stated: in both handlers an exception raised by a step of the timed
\* scope reaches the caller as that same exception, after the scope has been
\* left, logged with the elapsed milliseconds and the byte count.
C6_SameExceptionReraised ==
    (handler \in Handlers /\ Done /\ exception_to_raise # None) =>
        /\ outcome = "raised"
        /\ raised = exception_to_raise
        /\ scopes[1].exited
        /\ failure_log.logged
        /\ failure_log.error = exception_to_raise
        /\ failure_log.latency_ms \in Nat
        /\ failure_log.total_input_bytes = total_input_bytes

\* C7: in the classification handler, an invocation that ends in a fault has
\* published no Classified message successfully.
C7_NoPublishOnFault ==
    (handler = "classifier" /\ (outcome = "raised" \/ exception_to_raise # None)) =>
        CountOk("publish") = 0

C7_Witness ==
    /\ handler = "classifier"
    /\ Done
    /\ outcome = "raised"
    /\ raised = "Exc_publish"
    /\ Count("publish") = 1
    /\ Count("copy") = 1

DownloadFaulted ==
    /\ handler \in Handlers
    /\ exception_to_raise \in {"Exc_read", "Exc_parse_uri"}
    /\ Len(images_data) < Len(cloud_event.converted_files)

Scopes == 1..Len(scopes)

\* C9: a function_timer handle holds no 'latency_ms' key while its scope is
\* open, unless the caller wrote one, and once the scope is left it holds
\* the key with a non-negative integer, on normal exit and on exit by an
\* exception.
C9_LatencyKeyOnlyAfterExit ==
    handler = None =>
        \A i \in Scopes :
            /\ (~scopes[i].exited /\ ~scopes[i].caller_wrote)
                  => "latency_ms" \notin DOMAIN scopes[i].metrics
            /\ scopes[i].exited
                  => /\ "latency_ms" \in DOMAIN scopes[i].metrics
                     /\ scopes[i].metrics["latency_ms"] \in Nat

C9_Witness ==
    /\ handler = None
    /\ \E i \in Scopes :
         /\ scopes[i].exited
         /\ scopes[i].out_exc # None
         /\ ~scopes[i].caller_wrote
         /\ scopes[i].metrics["latency_ms"] = 1
    /\ \E i \in Scopes :
         /\ scopes[i].exited
         /\ scopes[i].out_exc = None

\* C10: when the body of a function_timer scope raises, the scope is left
\* with 'latency_ms' written and the same exception leaves the scope: the
\* timer neither swallows nor replaces it, and what the caller observes is
\* an exception that left a scope whose key is written.
C10_ExceptionSurvivesTimer ==
    handler = None =>
        /\ \A i \in Scopes :
             scopes[i].exited =>
                /\ scopes[i].out_exc = scopes[i].body_exc
                /\ "latency_ms" \in DOMAIN scopes[i].metrics
        /\ caught # None =>
             \E i \in Scopes : scopes[i].exited /\ scopes[i].out_exc = caught
        /\ inflight # None =>
             \E i \in Scopes : scopes[i].body_exc = inflight

C10_Witness ==
    /\ handler = None
    /\ caught = "ValueError"
    /\ \E i \in Scopes :
         /\ scopes[i].exited
         /\ scopes[i].body_exc = "ValueError"
         /\ scopes[i].out_exc = "ValueError"
         /\ "latency_ms" \in DOMAIN scopes[i].metrics

Latency(i) == scopes[i].metrics["latency_ms"]

\* C11: for nested function_timer scopes on a clock that never goes back,
\* the inner scope is left, and its 'latency_ms' written, before the outer
\* one, and the outer 'latency_ms' is at least the inner one, wherever the
\* inner scope sits inside the outer body.
C11_NestedOuterAtLeastInner ==
    handler = None =>
        \A i \in Scopes, j \in Scopes :
            (scopes[j].parent = i /\ scopes[i].exited) =>
                /\ scopes[j].exited
                /\ scopes[j].exit_order < scopes[i].exit_order
                /\ "latency_ms" \in DOMAIN scopes[j].metrics
                /\ Latency(i) >= Latency(j)
                /\ scopes[i].start <= scopes[j].start

C11_Witness ==
    /\ handler = None
    /\ \E i \in Scopes, j \in Scopes :
         /\ scopes[j].parent = i
         /\ scopes[i].exited
         /\ scopes[j].start > scopes[i].start
         /\ Latency(j) = 0
         /\ Latency(i) = 1

\* C12: every function_timer scope has its own handle and its own start
\* time: a new scope starts with an empty handle and the current clock, no
\* step changes the handle of a scope that has been left, and the
\* 'latency_ms' written on exit is the time elapsed since that scope's own
\* start.
C12_ScopesIndependent ==
    [][handler = None =>
        /\ Len(scopes') >= Len(scopes)
        /\ \A i \in Scopes :
             /\ scopes'[i].start = scopes[i].start
             /\ scopes[i].exited => scopes'[i].metrics = scopes[i].metrics
             /\ (~scopes[i].exited /\ scopes'[i].exited) =>
                   scopes'[i].metrics["latency_ms"] =
                       ((clock - scopes[i].start) * MsPerSecond) \div TicksPerSecond
        /\ Len(scopes') > Len(scopes) =>
             /\ scopes'[Len(scopes')].metrics = EmptyDict
             /\ scopes'[Len(scopes')].start = clock]_vars

C12_Witness ==
    /\ handler = None
    /\ Len(scopes) = 2
    /\ scopes[1].exited
    /\ scopes[2].exited
    /\ scopes[2].parent = 0
    /\ scopes[1].start = 0
    /\ scopes[2].start > 0
    /\ Latency(1) = 0
    /\ Latency(2) = 1

\* C13: the handle of a scope stays the same handle when the scope is left,
\* and the exit writes 'latency_ms' only: every other key the caller put in
\* is still there with its value.
C13_ExitWritesOnlyLatency ==
    [][handler = None =>
        \A i \in Scopes :
            (~scopes[i].exited /\ scopes'[i].exited) =>
                /\ DOMAIN scopes'[i].metrics = DOMAIN scopes[i].metrics \cup {"latency_ms"}
                /\ \A k \in DOMAIN scopes[i].metrics \ {"latency_ms"} :
                     scopes'[i].metrics[k] = scopes[i].metrics[k]
                /\ scopes'[i].start = scopes[i].start]_vars

C13_Witness ==
    /\ handler = None
    /\ \E i \in Scopes :
         /\ scopes[i].exited
         /\ DOMAIN scopes[i].metrics = {"latency_ms", "custom_metric"}
         /\ scopes[i].metrics["custom_metric"] = 42
         /\ Latency(i) = 1

Validated == handler = "classifier" /\ avg_score # 0

\* C14: in the classification handler the outcome of image-quality
\* validation does not steer the work: once validation has returned, valid
\* or not, an invocation in which no later step faults has classified the
\* vendor, copied the source to the archive and published one message, and
\* every published message carries the average score validation returned.
C14_QualityDoesNotGate ==
    Validated =>
        /\ \A m \in Published : m.quality_score = avg_score
        /\ (Done /\ exception_to_raise = None) =>
              /\ outcome = "returned"
              /\ classification = classify_vendor(source_file, cloud_event.converted_files)
              /\ CountOk("copy") = 1
              /\ CountOk("publish") = 1
        /\ (pc = "classify") => exception_to_raise = None

C14_Witness ==
    /\ Validated
    /\ Done
    /\ ~all_valid
    /\ avg_score = 35
    /\ outcome = "returned"
    /\ CountOk("publish") = 1
    /\ \E m \in Published : m.quality_score = 35

CallsOf(op) == {i \in 1..Len(calls) : calls[i].op = op}

\* C15: in the classification handler every publish comes after a
\* successful copy of the source object into the archive bucket under its
\* own relative path; the published Classified message carries the inbound
\* source_file and converted_files, the vendor type of the classification
\* and, as archived_to, the URI of that copy; an invocation without a fault
\* publishes exactly one message, and when the archive copy faults publish
\* is never called.
C15_ArchiveThenPublish ==
    handler = "classifier" =>
        /\ Count("publish") <= 1
        /\ Count("copy") <= 1
        /\ \A p \in CallsOf("publish") :
             /\ \E c \in CallsOf("copy") :
                  /\ c < p
                  /\ calls[c].ok
                  /\ calls[c].uri = cloud_event.source_file
                  /\ calls[c].dst.bucket = archive_bucket
                  /\ calls[c].dst.path = cloud_event.source_file.path
                  /\ calls[p].msg.archived_to =
                        GsURI(calls[c].dst.bucket, calls[c].dst.path)
             /\ calls[p].msg.kind = "Classified"
             /\ calls[p].msg.source_file = cloud_event.source_file
             /\ calls[p].msg.converted_files = cloud_event.converted_files
             /\ calls[p].msg.vendor_type = classification.vendor_type
             /\ classification =
                   classify_vendor(cloud_event.source_file, cloud_event.converted_files)
        /\ (Done /\ exception_to_raise = None) => CountOk("publish") = 1
        /\ exception_to_raise = "Exc_copy" => Count("publish") = 0

C15_Witness ==
    /\ handler = "classifier"
    /\ Done
    /\ outcome = "returned"
    /\ cloud_event.source_file = GsURI("in", <<"2024", "b.tif">>)
    /\ Len(cloud_event.converted_files) = 2
    /\ \E m \in Published : m.archived_to = GsURI("archive", <<"2024", "b.tif">>)

OkCalls(cs, op) == {i \in 1..Len(cs) : cs[i].op = op /\ cs[i].ok}

\* the invocations that have ended: the earlier deliveries and, once it is
\* done, the current one
Ended ==
    [i \in 1..(Len(history) + (IF Done THEN 1 ELSE 0)) |->
        IF i <= Len(history) THEN history[i]
                             ELSE [calls |-> calls, outcome |-> outcome]]

\* an invocation that returned read every artifact, copied the source to the
\* archive and published
FullRun(inv) ==
    /\ Cardinality(OkCalls(inv.calls, "read")) = Len(cloud_event.converted_files)
    /\ Cardinality(OkCalls(inv.calls, "copy")) = 1
    /\ Cardinality(OkCalls(inv.calls, "publish")) = 1

\* C16: the classification handler keeps nothing between invocations: every
\* delivery of the same valid Converted message that returns has performed
\* all the downloads, the archive copy and the publish itself, whatever the
\* earlier deliveries did, so two returning deliveries publish two
\* Classified messages for the same source_file and converted_files.
C16_RedeliveryRepeatsSideEffects ==
    handler = "classifier" =>
        /\ \A i \in DOMAIN Ended :
             Ended[i].outcome = "returned" => FullRun(Ended[i])
        /\ \A i \in DOMAIN Ended :
             \A p \in OkCalls(Ended[i].calls, "publish") :
                /\ Ended[i].calls[p].msg.source_file = cloud_event.source_file
                /\ Ended[i].calls[p].msg.converted_files = cloud_event.converted_files

C16_Witness ==
    /\ handler = "classifier"
    /\ Len(cloud_event.converted_files) = 2
    /\ Len(Ended) = 2
    /\ Ended[1].outcome = "returned"
    /\ Ended[2].outcome = "returned"
    /\ Cardinality(OkCalls(Ended[1].calls, "publish"))
         + Cardinality(OkCalls(Ended[2].calls, "publish")) = 2

C17_WitnessNoInvoice ==
    /\ handler = "extractor"
    /\ Done
    /\ result.success
    /\ ~result.has_invoice
    /\ langfuse_enabled
    /\ outcome = "returned"
    /\ \E m \in Published : m.extracted_data = "{}"

LastSegment(u) == <<u.path[Len(u.path)]>>

\* C18: failure-bucket routing copies the source object into the failure
\* bucket under the last segment of its path, and writes the record
\* '<filename>.error.json' only after that copy has succeeded; the record
\* holds the original source URI and the error message the handler passed,
\* which is the result's error string ("Unknown error" when the result has
\* none); when the copy faults no record is written.
C18_CopyThenErrorRecord ==
    handler = "extractor" =>
        /\ Count("copy") <= 1
        /\ Count("write") <= 1
        /\ \A c \in CallsOf("copy") :
             /\ \E r \in CallsOf(Route_op) : r < c
             /\ calls[c].uri = cloud_event.source_file
             /\ calls[c].dst = [bucket |-> failed_bucket,
                                path |-> LastSegment(cloud_event.source_file),
                                suffix |-> ""]
        /\ \A w \in CallsOf("write") :
             /\ \E c \in CallsOf("copy") : c < w /\ calls[c].ok
             /\ calls[w].dst = [bucket |-> failed_bucket,
                                path |-> LastSegment(cloud_event.source_file),
                                suffix |-> ".error.json"]
             /\ calls[w].uri = cloud_event.source_file
             /\ calls[w].err = (IF result.error \in {None, ""}
                                   THEN "Unknown error" ELSE result.error)
             /\ \E r \in CallsOf(Route_op) : calls[r].err = calls[w].err
        /\ route_error = "Exc_copy" => Count("write") = 0

C18_Witness ==
    /\ handler = "extractor"
    /\ Done
    /\ cloud_event.source_file = GsURI("in", <<"2024", "b.tif">>)
    /\ result.error = "All providers failed"
    /\ CountOk("copy") = 1
    /\ CountOk("write") = 1
    /\ \E w \in CallsOf("write") :
         /\ calls[w].dst.path = <<"b.tif">>
         /\ calls[w].err = "All providers failed"

LastCall == calls[Len(calls)]

\* C19: every invocation of the extraction handler has called
\* observer.flush() when it ends, and that call is the last collaborator
\* call of the invocation: after the failure-bucket routing on the
\* negative-result path, after the publish on the success path, in the
\* except clause on every fault path; an invocation that returns has called
\* it exactly once.
C19_FlushBeforeEnd ==
    (handler = "extractor" /\ Done) =>
        /\ Count("flush") >= 1
        /\ LastCall.op = "flush"
        /\ outcome = "returned" =>
              /\ Count("flush") = 1
              /\ LastCall.ok
              /\ (result.success => CountOk("publish") = 1)
              /\ (~result.success => Count(Route_op) = 1)
        /\ outcome = "raised" =>
              \E f \in CallsOf("flush") :
                  \A i \in 1..Len(calls) : calls[i].op # "flush" => i < f

C19_Witness ==
    /\ handler = "extractor"
    /\ Done
    /\ outcome = "returned"
    /\ result.success
    /\ Count("flush") = 1
    /\ Len(calls) >= 2
    /\ calls[Len(calls) - 1].op = "publish"

\* fault path of C19: a failed read, then the flush of the except clause
C19_WitnessFault ==
    /\ handler = "extractor"
    /\ Done
    /\ raised = "Exc_read"
    /\ Count("flush") = 1
    /\ LastCall.op = "flush"

\* C20: in an invocation of the extraction handler publish and
\* failure-bucket routing are each called at most once and never both, and
\* an invocation that returns has done exactly one of them: a successful
\* publish, or one call of _copy_to_failed_bucket.
C20_PublishXorRoute ==
    handler = "extractor" =>
        /\ Count("publish") <= 1
        /\ Count(Route_op) <= 1
        /\ ~(Count("publish") >= 1 /\ Count(Route_op) >= 1)
        /\ outcome = "returned" => CountOk("publish") + Count(Route_op) = 1

C20_Witness ==
    /\ handler = "extractor"
    /\ Done
    /\ outcome = "returned"
    /\ Count(Route_op) = 1
    /\ Count("publish") = 0
    /\ route_error = "Exc_write"

IsRead(c) == c.op = "read"

Reads == SelectSeq(calls, IsRead)

\* the stage computation has been started: quality validation in the
\* classifier, extract_invoice in the extractor
StageStarted ==
    \/ /\ handler = "classifier"
       /\ \/ avg_score # 0
          \/ exception_to_raise = "Exc_validate_images"
    \/ /\ handler = "extractor"
       /\ \/ result # NoResult
          \/ exception_to_raise = "Exc_extract"

\* C21: in both handlers the artifacts are read one at a time in the order
\* of converted_files and a failed read is the last read; the images held
\* are those read so far, in that order; the stage computation, and every
\* call other than a read or a flush, comes only after every artifact has
\* been read, with the images in the order of converted_files; the byte
\* count kept, and logged on a fault, is the total size of the artifacts
\* read (0 when the fault precedes the first read).
C21_ReadsInOrderThenStage ==
    handler \in Handlers =>
        /\ Len(Reads) <= Len(cloud_event.converted_files)
        /\ \A k \in 1..Len(Reads) :
             /\ Reads[k].uri = cloud_event.converted_files[k]
             /\ k < Len(Reads) => Reads[k].ok
        /\ Len(images_data) = Cardinality(OkCalls(calls, "read"))
        /\ \A k \in 1..Len(images_data) : images_data[k] = Reads[k].uri
        /\ StageStarted =>
             /\ images_data = cloud_event.converted_files
             /\ Cardinality(OkCalls(calls, "read")) = Len(cloud_event.converted_files)
        /\ \A i \in 1..Len(calls) :
             calls[i].op \notin {"read", "flush"} =>
                /\ images_data = cloud_event.converted_files
                /\ \A r \in CallsOf("read") : r < i /\ calls[r].ok
        /\ total_input_bytes = SumSizes(images_data)
        /\ failure_log.logged =>
             /\ failure_log.total_input_bytes = SumSizes(images_data)
             /\ Count("read") = 0 => failure_log.total_input_bytes = 0

C21_Witness ==
    /\ handler = "classifier"
    /\ Done
    /\ exception_to_raise = "Exc_read"
    /\ cloud_event.converted_files =
          <<GsURI("proc", <<"a.png">>), GsURI("proc", <<"b.png">>)>>
    /\ Len(Reads) = 2
    /\ failure_log.logged
    /\ failure_log.total_input_bytes = 3

\* another case of C21: the extraction starts after both artifacts are read
C21_WitnessStage ==
    /\ handler = "extractor"
    /\ Done
    /\ exception_to_raise = "Exc_extract"
    /\ Len(images_data) = 2
    /\ images_data[1] # images_data[2]
    /\ failure_log.logged
    /\ failure_log.total_input_bytes = 8

====
